---- MODULE Spec2Model ----
(***************************************************************************)
(* State-machine model of the SecretSanta class: src/secretSanta.ts        *)
(* (feasibility-gated backtracking) and its earlier generate-and-test      *)
(* version, src/unnamed/part_001.  A state holds the fields of one         *)
(* SecretSanta object, the position of the running assign() call, the      *)
(* frames of the findMatching recursion, the output directory, and the     *)
(* fields of a second object that is not running at the moment.            *)
(*                                                                         *)
(* Indices are 1-based here (the source is 0-based); people[i] stands for  *)
(* people[i].id.                                                           *)
(***************************************************************************)
EXTENDS Integers, Sequences, FiniteSets, TLC

VARIABLES people, illegalPairings, groups, hasGroups, allowSelfAssignment,
          assignments, pc, outcome, stack, cur, ret, called,
          dirExists, files, thrown, summary,
          attempts, validAssignment,
          other, earlier

config == <<people, illegalPairings, groups, hasGroups, allowSelfAssignment>>
search == <<stack, cur, ret>>
(* The output directory, and what the two output methods handed back.      *)
output == <<dirExists, files, thrown, summary>>
(* The locals of the generate-and-test assign().                           *)
retry == <<attempts, validAssignment>>
(* The object that is not running, and what an earlier execution returned. *)
peers == <<other, earlier>>
aside == <<output, retry, peers>>
vars == <<people, illegalPairings, groups, hasGroups, allowSelfAssignment,
          assignments, pc, outcome, stack, cur, ret, called,
          dirExists, files, thrown, summary,
          attempts, validAssignment,
          other, earlier>>

---------------------------------------------------------------------------
(* Bounds of the generic input family.                                     *)
MaxPeople == 3
MaxConstraints == 2

(* Program constants.                                                      *)
HallMaxPeople == 10
MaxSubsetCap == 4

AllIds == <<"a", "b", "c", "d", "e", "f">>

ErrTooFew == "Need at least 2 people for Secret Santa"
ErrNoPossible == "No possible assignment exists with current constraints"
ErrUnable == "Unable to generate valid assignment"

Min(x, y) == IF x <= y THEN x ELSE y

Range(s) == {s[i] : i \in 1..Len(s)}

---------------------------------------------------------------------------
(* Constraint evaluator.                                                   *)

(* Mutant: only the listed direction is blocked.                           *)
isIllegalPairing_oneWay(giverId, receiverId) ==
    \E p \in illegalPairings : p[1] = giverId /\ p[2] = receiverId

isIllegalPairing(giverId, receiverId) ==
    \E p \in illegalPairings :
        \/ (p[1] = giverId /\ p[2] = receiverId)
        \/ (p[1] = receiverId /\ p[2] = giverId)

(* Mutant: the loop returns after looking at one group only.               *)
isWithinSameGroup_firstOnly(personId1, personId2) ==
    IF ~hasGroups \/ groups = {} THEN FALSE
    ELSE LET group == CHOOSE g \in groups : TRUE
         IN  personId1 \in group /\ personId2 \in group

isWithinSameGroup(personId1, personId2) ==
    IF ~hasGroups THEN FALSE
    ELSE \E group \in groups : personId1 \in group /\ personId2 \in group

(* Mutant: the forbidden pairs are not consulted.                          *)
isValidPairing_noIllegal(giverId, receiverId) ==
    IF giverId = receiverId THEN FALSE
    ELSE IF hasGroups /\ isWithinSameGroup(giverId, receiverId) THEN FALSE
    ELSE TRUE

isValidPairing(giverId, receiverId) ==
    IF giverId = receiverId THEN FALSE
    ELSE IF isIllegalPairing(giverId, receiverId) THEN FALSE
    ELSE IF hasGroups /\ isWithinSameGroup(giverId, receiverId) THEN FALSE
    ELSE TRUE

---------------------------------------------------------------------------
(* Feasibility pre-check.                                                  *)

RECURSIVE backtrack(_, _, _, _)
backtrack(start, current, n, k) ==
    IF Len(current) = k THEN <<current>>
    ELSE IF start > n THEN <<>>
    ELSE backtrack(start + 1, Append(current, start), n, k)
         \o backtrack(start + 1, current, n, k)

getCombinations(n, k) == backtrack(1, <<>>, n, k)

(* Mutant: only the first giver of the subset is looked at.                *)
receiverSet_firstGiver(giverIndices) ==
    {receiverIdx \in 1..Len(people) :
        isValidPairing(people[giverIndices[1]], people[receiverIdx])}

receiverSet(giverIndices) ==
    {receiverIdx \in 1..Len(people) :
        \E x \in 1..Len(giverIndices) :
            isValidPairing(people[giverIndices[x]], people[receiverIdx])}

(* Mutant: the subset-size loop stops one short (< for <=).                *)
maxSubsetSize_exclusive == Min(MaxSubsetCap, Len(people) \div 2) - 1

maxSubsetSize == Min(MaxSubsetCap, Len(people) \div 2)

(* Mutant: the pre-check is switched off.                                  *)
isAssignmentPossible_skipped == TRUE

(* Mutant: Hall's condition compared with <= for <.                        *)
isAssignmentPossible_strict ==
    \A subsetSize \in 1..maxSubsetSize :
        LET combinations == getCombinations(Len(people), subsetSize)
        IN  \A c \in 1..Len(combinations) :
                ~(Cardinality(receiverSet(combinations[c])) <= Len(combinations[c]))

isAssignmentPossible ==
    \A subsetSize \in 1..maxSubsetSize :
        LET combinations == getCombinations(Len(people), subsetSize)
        IN  \A c \in 1..Len(combinations) :
                ~(Cardinality(receiverSet(combinations[c])) < Len(combinations[c]))

---------------------------------------------------------------------------
(* Backtracking search.                                                    *)

Null == [isNull |-> TRUE, value |-> <<>>]
Some(a) == [isNull |-> FALSE, value |-> a]

Edge(g, r) == [giverId |-> g, receiverId |-> r]

(* people.findIndex((p) => p.id === id): the first index holding the id.   *)
findIndex(id) ==
    IF id \in Range(people)
    THEN CHOOSE i \in 1..Len(people) :
            people[i] = id /\ \A j \in 1..(i - 1) : people[j] # id
    ELSE 0

(* Mutant: the set holds ids, so no index is ever found in it.             *)
assignedReceivers_none(currentAssignments) == {}

assignedReceivers(currentAssignments) ==
    {findIndex(currentAssignments[x].receiverId) :
        x \in 1..Len(currentAssignments)}

(* Mutant: Math.random() returns 0 every time.                             *)
Draws_fixed(n) == {[i \in 2..n |-> 1]}

(* Mutant: j < i for each i, so no entry ever stays where it was.          *)
RECURSIVE Draws_sattolo(_)
Draws_sattolo(n) ==
    IF n < 2 THEN {<<>>}
    ELSE {(n :> j) @@ js : js \in Draws_sattolo(n - 1), j \in 1..(n - 1)}

(* The draws of one Fisher-Yates pass over n entries: j <= i for each i.   *)
RECURSIVE Draws(_)
Draws(n) ==
    IF n < 2 THEN {<<>>}
    ELSE {(n :> j) @@ js : js \in Draws(n - 1), j \in 1..n}

Swap(arr, i, j) == [arr EXCEPT ![i] = arr[j], ![j] = arr[i]]

RECURSIVE shuffleFrom(_, _, _)
shuffleFrom(arr, i, js) ==
    IF i < 2 THEN arr ELSE shuffleFrom(Swap(arr, i, js[i]), i - 1, js)

receiverIndices(js) ==
    shuffleFrom([i \in 1..Len(people) |-> i], Len(people), js)

(* Mutant: the guard on receivers already taken is missing.                *)
Skipped_validOnly(currentAssignments, receiverIdx) ==
    ~isValidPairing(people[Len(currentAssignments) + 1], people[receiverIdx])

(* The two `continue` guards of the loop: both depend only on values that  *)
(* are fixed for the whole call.                                           *)
Skipped(currentAssignments, receiverIdx) ==
    \/ receiverIdx \in assignedReceivers(currentAssignments)
    \/ ~isValidPairing(people[Len(currentAssignments) + 1], people[receiverIdx])

(* The indices the loop of findMatching(currentAssignments) recurses on.   *)
Tried(currentAssignments) ==
    {receiverIdx \in 1..Len(people) : ~Skipped(currentAssignments, receiverIdx)}

(* Mutant: the loop walks the participants in input order, whatever the    *)
(* shuffle produced.                                                       *)
Candidates_inputOrder(order, tried) ==
    LET keep(r) == r \in tried
    IN  SelectSeq([i \in 1..Len(order) |-> i], keep)

(* The entries of the shuffled order that get past both guards, in the     *)
(* order the loop reaches them.                                            *)
Candidates(order, tried) ==
    LET keep(r) == r \in tried
    IN  SelectSeq(order, keep)

---------------------------------------------------------------------------
(* Inputs.                                                                 *)

Ids == {AllIds[i] : i \in 1..MaxPeople}

Pairs == {p \in Ids \X Ids : p[1] # p[2]}

Groups == {g \in SUBSET Ids : Cardinality(g) >= 2}

RECURSIVE SubsetsUpTo(_, _)
SubsetsUpTo(S, k) ==
    IF k = 0 THEN {{}}
    ELSE LET smaller == SubsetsUpTo(S, k - 1)
         IN  smaller \cup {s \cup {x} : s \in smaller, x \in S}

SubsetsOfSize(S, k) == {s \in SubsetsUpTo(S, k) : Cardinality(s) = k}

(* At most MaxConstraints forbidden pairs and groups together; the groups  *)
(* field is either absent or a list.                                       *)
GenericConstraints ==
    UNION {SubsetsUpTo(Pairs, MaxConstraints - k) \X SubsetsOfSize(Groups, k)
            \X (IF k = 0 THEN BOOLEAN ELSE {TRUE}) : k \in 0..MaxConstraints}

GenericInputs ==
    {[people |-> SubSeq(AllIds, 1, n), illegalPairings |-> c[1],
      groups |-> c[2], hasGroups |-> c[3]] :
        n \in 0..MaxPeople, c \in GenericConstraints}

(* Inputs of the test suite. *)
AllForbidden ==
    [people |-> <<"a", "b", "c">>,
     illegalPairings |-> {<<"a", "b">>, <<"a", "c">>, <<"b", "c">>},
     groups |-> {}, hasGroups |-> FALSE]

OverlappingGroups ==
    [people |-> <<"a", "b", "c", "d", "e", "f">>,
     illegalPairings |-> {},
     groups |-> {{"a", "b", "c"}, {"c", "d", "e"}}, hasGroups |-> TRUE]

BidirectionalPairs ==
    [people |-> <<"a", "b", "c", "d">>,
     illegalPairings |-> {<<"a", "b">>, <<"c", "d">>},
     groups |-> {}, hasGroups |-> FALSE]

TwoGroups ==
    [people |-> <<"a", "b", "c", "d", "e", "f">>,
     illegalPairings |-> {},
     groups |-> {{"a", "b", "c"}, {"d", "e", "f"}}, hasGroups |-> TRUE]

(* The sample run of index.ts. *)
SampleInput ==
    [people |-> <<"a", "b", "c", "d", "e", "f">>,
     illegalPairings |-> {<<"a", "b">>, <<"c", "d">>},
     groups |-> {{"a", "c", "e"}, {"b", "d", "f"}}, hasGroups |-> TRUE]

DuplicatePeople ==
    [people |-> <<"a", "b", "c", "a">>,
     illegalPairings |-> {}, groups |-> {}, hasGroups |-> FALSE]

(* The input of the test that sets allowSelfAssignment.                    *)
ThreePeople ==
    [people |-> <<"a", "b", "c">>,
     illegalPairings |-> {}, groups |-> {}, hasGroups |-> FALSE]

(* Two groups that share a member, nobody outside them.                    *)
OverlappingFive ==
    [people |-> <<"a", "b", "c", "d", "e">>,
     illegalPairings |-> {},
     groups |-> {{"a", "b", "c"}, {"c", "d", "e"}}, hasGroups |-> TRUE]

FourPeople ==
    [people |-> <<"a", "b", "c", "d">>,
     illegalPairings |-> {}, groups |-> {}, hasGroups |-> FALSE]

TestInputs ==
    {AllForbidden, BidirectionalPairs, TwoGroups, OverlappingGroups,
     SampleInput, DuplicatePeople, OverlappingFive, FourPeople}

(* The values config.allowSelfAssignment takes for an input.               *)
SelfAssignmentFlags(c) == IF c = ThreePeople THEN BOOLEAN ELSE {FALSE}

Inputs == GenericInputs \cup TestInputs

(* No file was ever written, no output method was ever called.            *)
NoFiles == [name \in {} |-> ""]

FreshDirectory ==
    /\ dirExists = FALSE
    /\ files = NoFiles
    /\ thrown = "none"
    /\ summary = "none"

Init ==
    /\ \E c \in Inputs :
        /\ people = c.people
        /\ illegalPairings = c.illegalPairings
        /\ groups = c.groups
        /\ hasGroups = c.hasGroups
        /\ allowSelfAssignment \in SelfAssignmentFlags(c)
    /\ assignments = <<>>
    /\ pc = "idle"
    /\ outcome = "none"
    /\ stack = <<>>
    /\ cur = <<>>
    /\ ret = Null
    /\ called = {}
    /\ FreshDirectory
    /\ attempts = 0
    /\ validAssignment = FALSE
    /\ other = <<>>
    /\ earlier = <<>>

---------------------------------------------------------------------------
(* assign() and generateAssignmentWithMatching().                          *)

(* Mutant: the guard of assign() is off by one.                            *)
tooFew_offByOne == Len(people) < 1

tooFew == Len(people) < 2

AssignTooFew ==
    /\ pc = "idle"
    /\ tooFew
    /\ pc' = "done"
    /\ outcome' = ErrTooFew
    /\ called' = {}
    /\ UNCHANGED <<config, aside, assignments, search>>

runsHallCheck == Len(people) <= HallMaxPeople

AssignInfeasible ==
    /\ pc = "idle"
    /\ ~tooFew
    /\ runsHallCheck /\ ~isAssignmentPossible
    /\ pc' = "done"
    /\ outcome' = ErrNoPossible
    /\ called' = {"isAssignmentPossible"}
    /\ UNCHANGED <<config, aside, assignments, search>>

AssignSearch ==
    /\ pc = "idle"
    /\ ~tooFew
    /\ runsHallCheck => isAssignmentPossible
    /\ pc' = "call"
    /\ outcome' = "running"
    /\ called' = (IF runsHallCheck THEN {"isAssignmentPossible"} ELSE {})
                    \cup {"findMatching"}
    /\ stack' = <<>> /\ cur' = <<>> /\ ret' = Null
    /\ UNCHANGED <<config, aside, assignments>>

(* findMatching(cur) is entered with every giver assigned.                 *)
FindMatchingComplete ==
    /\ pc = "call"
    /\ Len(cur) = Len(people)
    /\ ret' = Some(cur)
    /\ pc' = "ret"
    /\ UNCHANGED <<config, aside, assignments, outcome, stack, cur, called>>

(* Mutant: the Fisher-Yates pass permutes this.people itself.              *)
FindMatchingShuffle_inPlace ==
    /\ pc = "call"
    /\ Len(cur) # Len(people)
    /\ \E tried \in {Tried(cur)} : \E js \in Draws(Len(people)) :
            /\ stack' = Append(stack, Candidates(receiverIndices(js), tried))
            /\ people' = [i \in 1..Len(people) |-> people[receiverIndices(js)[i]]]
    /\ pc' = "loop"
    /\ UNCHANGED <<illegalPairings, groups, hasGroups, allowSelfAssignment,
                   aside, assignments, outcome, cur, ret, called>>

(* findMatching(cur) is entered with a giver left: shuffle, open the loop. *)
FindMatchingShuffle ==
    /\ pc = "call"
    /\ Len(cur) # Len(people)
    /\ \E tried \in {Tried(cur)} : \E js \in Draws(Len(people)) :
            stack' = Append(stack, Candidates(receiverIndices(js), tried))
    /\ pc' = "loop"
    /\ UNCHANGED <<config, aside, assignments, outcome, cur, ret, called>>

(* Mutant: the search builds the matching in this.assignments itself.      *)
LoopRecurse_storing ==
    /\ pc = "loop"
    /\ stack[Len(stack)] # <<>>
    /\ cur' = Append(cur, Edge(people[Len(cur) + 1],
                               people[Head(stack[Len(stack)])]))
    /\ assignments' = cur'
    /\ pc' = "call"
    /\ UNCHANGED <<config, aside, outcome, stack, ret, called>>

(* The loop reaches the next receiver that passes both guards and recurses. *)
LoopRecurse ==
    /\ pc = "loop"
    /\ stack[Len(stack)] # <<>>
    /\ cur' = Append(cur, Edge(people[Len(cur) + 1],
                               people[Head(stack[Len(stack)])]))
    /\ pc' = "call"
    /\ UNCHANGED <<config, aside, assignments, outcome, stack, ret, called>>

(* The loop ends: return null.                                             *)
LoopExhausted ==
    /\ pc = "loop"
    /\ stack[Len(stack)] = <<>>
    /\ ret' = Null
    /\ stack' = SubSeq(stack, 1, Len(stack) - 1)
    /\ pc' = "ret"
    /\ UNCHANGED <<config, aside, assignments, outcome, cur, called>>

(* A recursive call returned a result: hand it to the caller.              *)
ReturnResult ==
    /\ pc = "ret"
    /\ stack # <<>>
    /\ ~ret.isNull
    /\ stack' = SubSeq(stack, 1, Len(stack) - 1)
    /\ UNCHANGED <<config, aside, assignments, pc, outcome, cur, ret, called>>

(* Mutant: the loop returns whatever the first recursive call returned.    *)
ReturnNull_giveUp ==
    /\ pc = "ret"
    /\ stack # <<>>
    /\ ret.isNull
    /\ stack' = SubSeq(stack, 1, Len(stack) - 1)
    /\ UNCHANGED <<config, aside, assignments, pc, outcome, cur, ret, called>>

(* Mutant: after a null result the loop tries the same receiver again.     *)
ReturnNull_retrySame ==
    /\ pc = "ret"
    /\ stack # <<>>
    /\ ret.isNull
    /\ cur' = SubSeq(cur, 1, Len(stack) - 1)
    /\ pc' = "loop"
    /\ UNCHANGED <<config, aside, assignments, outcome, stack, ret, called>>

(* A recursive call returned null: the loop goes on with the next entry.   *)
ReturnNull ==
    /\ pc = "ret"
    /\ stack # <<>>
    /\ ret.isNull
    /\ stack' = [stack EXCEPT ![Len(stack)] = Tail(@)]
    /\ cur' = SubSeq(cur, 1, Len(stack) - 1)
    /\ pc' = "loop"
    /\ UNCHANGED <<config, aside, assignments, outcome, ret, called>>

AssignReturn ==
    /\ pc = "ret"
    /\ stack = <<>>
    /\ ~ret.isNull
    /\ assignments' = ret.value
    /\ outcome' = "returned"
    /\ pc' = "done"
    /\ UNCHANGED <<config, aside, search, called>>

(* Mutant: an exhausted search is reported with the pre-check's message.   *)
AssignUnable_sameMessage ==
    /\ pc = "ret"
    /\ stack = <<>>
    /\ ret.isNull
    /\ outcome' = ErrNoPossible
    /\ pc' = "done"
    /\ UNCHANGED <<config, aside, assignments, search, called>>

AssignUnable ==
    /\ pc = "ret"
    /\ stack = <<>>
    /\ ret.isNull
    /\ outcome' = ErrUnable
    /\ pc' = "done"
    /\ UNCHANGED <<config, aside, assignments, search, called>>

(* One assign() call on a freshly constructed object, and its steps.       *)
Next ==
    \/ AssignTooFew
    \/ AssignInfeasible
    \/ AssignSearch
    \/ FindMatchingComplete
    \/ FindMatchingShuffle
    \/ LoopRecurse
    \/ LoopExhausted
    \/ ReturnResult
    \/ ReturnNull
    \/ AssignReturn
    \/ AssignUnable

Spec == Init /\ [][Next]_vars

(* A call that has started runs on: assign() is synchronous code.          *)
SpecFair == Spec /\ WF_vars(Next)

---------------------------------------------------------------------------
(* Vocabulary of the properties.                                           *)

DistinctIds ==
    \A i, j \in 1..Len(people) : i # j => people[i] # people[j]

(* assign() has returned (the last call neither runs nor threw).           *)
Returned == pc = "done" /\ outcome = "returned"

(* assign() has thrown the given error.                                    *)
Threw(err) == pc = "done" /\ outcome = err

(* The complete valid assignments of the input: every participant gives to *)
(* one entry of the list, no entry receives twice, every edge is allowed.  *)
(* Stated on the constraint data, not through isValidPairing.              *)
Allowed(g, r) ==
    /\ g # r
    /\ <<g, r>> \notin illegalPairings
    /\ <<r, g>> \notin illegalPairings
    /\ hasGroups => \A group \in groups : ~(g \in group /\ r \in group)

ValidAssignments ==
    {m \in [1..Len(people) -> 1..Len(people)] :
        /\ \A i, j \in 1..Len(people) : i # j => m[i] # m[j]
        /\ \A i \in 1..Len(people) : Allowed(people[i], people[m[i]])}

Givers(id) == {x \in 1..Len(assignments) : assignments[x].giverId = id}
Receivers(id) == {x \in 1..Len(assignments) : assignments[x].receiverId = id}

---------------------------------------------------------------------------
(* C1: with pairwise distinct ids and at least 2 participants, whenever    *)
(* assign() returns, the returned list has one edge per participant: every *)
(* participant id appears exactly once as giverId and exactly once as      *)
(* receiverId.                                                             *)
C1_Bijection ==
    (Returned /\ DistinctIds /\ Len(people) >= 2) =>
        /\ Len(assignments) = Len(people)
        /\ \A i \in 1..Len(people) :
            /\ Cardinality(Givers(people[i])) = 1
            /\ Cardinality(Receivers(people[i])) = 1
        /\ \A x \in 1..Len(assignments) :
            /\ assignments[x].giverId \in Range(people)
            /\ assignments[x].receiverId \in Range(people)

C1_Witness ==
    /\ Returned /\ DistinctIds
    /\ Len(people) = 3
    /\ assignments[1].receiverId = people[3]

(* C2: whenever assign() returns, every returned edge (g, r) has g # r,    *)
(* neither [g, r] nor [r, g] in illegalPairings, and no group holding both *)
(* g and r.                                                                *)
C2_EdgesValid ==
    Returned =>
        \A x \in 1..Len(assignments) :
            /\ Allowed(assignments[x].giverId, assignments[x].receiverId)
            /\ isValidPairing(assignments[x].giverId, assignments[x].receiverId)

(* A returned assignment for an input whose forbidden pairs and groups     *)
(* both cover participants.                                                *)
C2_Witness ==
    /\ Returned
    /\ \E p \in illegalPairings : p[1] \in Range(people) /\ p[2] \in Range(people)
    /\ hasGroups
    /\ \E group \in groups : Cardinality(group \cap Range(people)) >= 2

(* C3: an input with pairwise distinct ids and at least 2 participants     *)
(* that has a complete valid assignment never makes assign() throw         *)
(* 'No possible assignment exists ...' or 'Unable to generate valid        *)
(* assignment', whatever the shuffles draw.                                *)
C3_FindsExisting ==
    ((Threw(ErrNoPossible) \/ Threw(ErrUnable)) /\ DistinctIds) =>
        ValidAssignments = {}

(* assign() returned for a constrained input that has a valid assignment. *)
C3_Witness ==
    /\ Returned
    /\ people = BidirectionalPairs.people
    /\ illegalPairings = BidirectionalPairs.illegalPairings
    /\ DistinctIds
    /\ ValidAssignments # {}

(* C4: isAssignmentPossible() is true for every input that has a complete  *)
(* valid assignment.                                                       *)
C4_PrecheckSound ==
    ~isAssignmentPossible => ValidAssignments = {}

(* The pre-check ran on a solvable input with constraints that bite.       *)
C4_Witness ==
    /\ "isAssignmentPossible" \in called
    /\ outcome = "running"
    /\ Len(people) = 4
    /\ illegalPairings # {}
    /\ isAssignmentPossible
    /\ ValidAssignments # {}

(* C5: with 0 or 1 participants assign() throws 'Need at least 2 people    *)
(* for Secret Santa' before the pre-check or the search is started, and    *)
(* the stored assignment list stays empty.                                 *)
C5_TooFew ==
    Len(people) < 2 =>
        /\ pc \in {"idle", "done"}
        /\ called = {}
        /\ assignments = <<>>
        /\ pc = "done" => outcome = ErrTooFew

C5_Witness ==
    /\ Threw(ErrTooFew)
    /\ Len(people) = 1

(* C6: with 2 to 10 participants of whom some giver has no valid receiver  *)
(* assign() throws 'No possible assignment exists with current             *)
(* constraints' without calling findMatching and stores no assignment.     *)
GiverWithoutReceiver ==
    \E g \in 1..Len(people) :
        \A r \in 1..Len(people) : ~Allowed(people[g], people[r])

C8_PrecheckComplete ==
    (/\ pc = "done"
     /\ Len(people) >= 2 /\ Len(people) <= 10
     /\ isAssignmentPossible) =>
        /\ outcome # ErrUnable
        /\ ValidAssignments # {}

GroupsOf(id) == IF hasGroups THEN {group \in groups : id \in group} ELSE {}

OutsideGroupsOf(id) ==
    {r \in 1..Len(people) : \A group \in GroupsOf(id) : people[r] \notin group}

C10_OverlappingGroups ==
    Returned =>
        \A x \in 1..Len(assignments) :
            LET g == assignments[x].giverId
                r == assignments[x].receiverId
            IN  Cardinality(GroupsOf(g)) >= 2 =>
                    /\ \A group \in GroupsOf(g) : r \notin group
                    /\ Cardinality(OutsideGroupsOf(g)) = 1 =>
                        \A o \in OutsideGroupsOf(g) : r = people[o]

(* The six participants of the test: c is in both groups, f in none.       *)
C10_Witness ==
    /\ Returned
    /\ people = OverlappingGroups.people
    /\ groups = OverlappingGroups.groups
    /\ assignments[3] = Edge("c", "f")

---------------------------------------------------------------------------
(* generateEmailFiles(), createMasterFile() and getAssignmentsSummary().   *)

ErrNoneYet == "No assignments made yet. Run assign() first."
NoneYetSummary == "No assignments made yet."
(* The error the file system raises when a write fails.                    *)
DiskFull == "Disk full"
MasterName == "MASTER_ASSIGNMENTS.txt"

(* The Person records behind the ids.                                      *)
Name ==
    [a |-> "A", b |-> "B", c |-> "C", d |-> "D", e |-> "E", f |-> "F"]
Email ==
    [a |-> "a@test.com", b |-> "b@test.com", c |-> "c@test.com",
     d |-> "d@test.com", e |-> "e@test.com", f |-> "f@test.com"]

(* this.people.find((p) => p.id === id) finds a person.                    *)
found(id) == id \in Range(people)

generateEmailContent(giver, receiver) ==
    "Hello " \o Name[giver] \o "! Your Secret Santa assignment is: **"
        \o Name[receiver] \o "**"

FileName(giverId) == giverId \o "_assignment.txt"

(* Mutant: the line names the receiver on both sides.                      *)
SummaryLine_receiverOnly(a) ==
    Name[a.receiverId] \o " -> " \o Name[a.receiverId]

(* One line of the summary; an id that is not found prints as undefined.   *)
SummaryLine(a) ==
    (IF found(a.giverId) THEN Name[a.giverId] ELSE "undefined") \o " -> "
        \o (IF found(a.receiverId) THEN Name[a.receiverId] ELSE "undefined")

MasterLine(a) ==
    (IF found(a.giverId)
        THEN Name[a.giverId] \o " (" \o Email[a.giverId] \o ")"
        ELSE "undefined (undefined)") \o " -> "
        \o (IF found(a.receiverId) THEN Name[a.receiverId] ELSE "undefined")

RECURSIVE Join(_)
(* lines.join("\n") *)
Join(lines) ==
    IF lines = <<>> THEN ""
    ELSE IF Len(lines) = 1 THEN lines[1]
    ELSE lines[1] \o "\n" \o Join(Tail(lines))

masterContent == Join([i \in 1..Len(assignments) |-> MasterLine(assignments[i])])

RECURSIVE AssignmentWrites(_)
(* The writes of the loop of generateEmailFiles, in order: an assignment   *)
(* whose giver or receiver is not found is skipped.                        *)
AssignmentWrites(as) ==
    IF as = <<>> THEN <<>>
    ELSE IF ~found(Head(as).giverId) \/ ~found(Head(as).receiverId)
         THEN AssignmentWrites(Tail(as))
         ELSE <<[name |-> FileName(Head(as).giverId),
                 content |-> generateEmailContent(Head(as).giverId,
                                                  Head(as).receiverId)]>>
                  \o AssignmentWrites(Tail(as))

(* Every writeFileSync of one generateEmailFiles call, the master file last. *)
Writes ==
    Append(AssignmentWrites(assignments),
           [name |-> MasterName, content |-> masterContent])

RECURSIVE WriteAll(_, _)
(* The directory after the writes ws: a later write replaces the file.    *)
WriteAll(fs, ws) ==
    IF ws = <<>> THEN fs
    ELSE WriteAll([name \in DOMAIN fs \cup {Head(ws).name} |->
                      IF name = Head(ws).name THEN Head(ws).content
                      ELSE fs[name]],
                  Tail(ws))

(* No call of assign() is running.                                         *)
atRest == pc \in {"idle", "done"}

(* Mutant: the directory is created before the stored list is looked at.  *)
GenerateEmailFilesNoneYet_mkdirFirst ==
    /\ atRest
    /\ assignments = <<>>
    /\ dirExists' = TRUE
    /\ thrown' = ErrNoneYet
    /\ called' = called \cup {"generateEmailFiles"}
    /\ UNCHANGED <<config, assignments, pc, outcome, search,
                   files, summary, retry, peers>>

(* generateEmailFiles() finds nothing stored and throws, before it       *)
(* touches the directory.                                                  *)
GenerateEmailFilesNoneYet ==
    /\ atRest
    /\ assignments = <<>>
    /\ thrown' = ErrNoneYet
    /\ called' = called \cup {"generateEmailFiles"}
    /\ UNCHANGED <<config, assignments, pc, outcome, search,
                   dirExists, files, summary, retry, peers>>

(* mkdirSync fails: its error leaves generateEmailFiles().                 *)
GenerateEmailFilesMkdirFails ==
    /\ atRest
    /\ assignments # <<>>
    /\ ~dirExists
    /\ thrown' = DiskFull
    /\ called' = called \cup {"generateEmailFiles"}
    /\ UNCHANGED <<config, assignments, pc, outcome, search,
                   dirExists, files, summary, retry, peers>>

(* Mutant: a failed write is logged and the method returns normally.       *)
GenerateEmailFilesWriteFails_swallowed ==
    /\ atRest
    /\ assignments # <<>>
    /\ \E k \in 0..(Len(Writes) - 1) :
           files' = WriteAll(files, SubSeq(Writes, 1, k))
    /\ dirExists' = TRUE
    /\ thrown' = "returned"
    /\ called' = called \cup {"generateEmailFiles"}
    /\ UNCHANGED <<config, assignments, pc, outcome, search,
                   summary, retry, peers>>

(* The first k writes succeed, the next writeFileSync throws: its error    *)
(* leaves generateEmailFiles().                                            *)
GenerateEmailFilesWriteFails ==
    /\ atRest
    /\ assignments # <<>>
    /\ \E k \in 0..(Len(Writes) - 1) :
           files' = WriteAll(files, SubSeq(Writes, 1, k))
    /\ dirExists' = TRUE
    /\ thrown' = DiskFull
    /\ called' = called \cup {"generateEmailFiles"}
    /\ UNCHANGED <<config, assignments, pc, outcome, search,
                   summary, retry, peers>>

(* Mutant: createMasterFile is not called.                                 *)
GenerateEmailFiles_noMaster ==
    /\ atRest
    /\ assignments # <<>>
    /\ files' = WriteAll(files, AssignmentWrites(assignments))
    /\ dirExists' = TRUE
    /\ thrown' = "returned"
    /\ called' = called \cup {"generateEmailFiles"}
    /\ UNCHANGED <<config, assignments, pc, outcome, search,
                   summary, retry, peers>>

(* generateEmailFiles() with every file system call succeeding.            *)
GenerateEmailFiles ==
    /\ atRest
    /\ assignments # <<>>
    /\ files' = WriteAll(files, Writes)
    /\ dirExists' = TRUE
    /\ thrown' = "returned"
    /\ called' = called \cup {"generateEmailFiles"}
    /\ UNCHANGED <<config, assignments, pc, outcome, search,
                   summary, retry, peers>>

GetAssignmentsSummary ==
    /\ atRest
    /\ summary' = IF assignments = <<>> THEN NoneYetSummary
                  ELSE Join([i \in 1..Len(assignments) |->
                                SummaryLine(assignments[i])])
    /\ called' = called \cup {"getAssignmentsSummary"}
    /\ UNCHANGED <<config, assignments, pc, outcome, search,
                   dirExists, files, thrown, retry, peers>>

(* The caller, after assign() returned or threw, calls assign() again.     *)
AssignAgain ==
    /\ pc = "done"
    /\ pc' = "idle"
    /\ outcome' = "none"
    /\ UNCHANGED <<config, aside, assignments, search, called>>

---------------------------------------------------------------------------
(* The life of one object: any sequence of calls of its public methods.    *)

OnePerson ==
    [people |-> <<"a">>,
     illegalPairings |-> {}, groups |-> {}, hasGroups |-> FALSE]

TwoPeople ==
    [people |-> <<"a", "b">>,
     illegalPairings |-> {}, groups |-> {}, hasGroups |-> FALSE]

(* The smallest input the capped pre-check passes and the search exhausts. *)
PairAndThird ==
    [people |-> <<"a", "b", "c">>,
     illegalPairings |-> {<<"a", "b">>}, groups |-> {}, hasGroups |-> FALSE]

LifeInputs == {OnePerson, TwoPeople, ThreePeople, PairAndThird, AllForbidden}

InitLife ==
    /\ \E c \in LifeInputs :
        /\ people = c.people
        /\ illegalPairings = c.illegalPairings
        /\ groups = c.groups
        /\ hasGroups = c.hasGroups
        /\ allowSelfAssignment \in SelfAssignmentFlags(c)
    /\ assignments = <<>>
    /\ pc = "idle"
    /\ outcome = "none"
    /\ stack = <<>>
    /\ cur = <<>>
    /\ ret = Null
    /\ called = {}
    /\ FreshDirectory
    /\ attempts = 0
    /\ validAssignment = FALSE
    /\ other = <<>>
    /\ earlier = <<>>

NextLife ==
    \/ AssignTooFew
    \/ AssignInfeasible
    \/ AssignSearch
    \/ FindMatchingComplete
    \/ FindMatchingShuffle
    \/ LoopRecurse
    \/ LoopExhausted
    \/ ReturnResult
    \/ ReturnNull
    \/ AssignReturn
    \/ AssignUnable
    \/ AssignAgain
    \/ GenerateEmailFilesNoneYet
    \/ GenerateEmailFilesMkdirFails
    \/ GenerateEmailFilesWriteFails
    \/ GenerateEmailFiles
    \/ GetAssignmentsSummary

SpecLife == InitLife /\ [][NextLife]_vars

---------------------------------------------------------------------------
(* Properties of the life of one object.                                   *)

AssignErrors == {ErrTooFew, ErrNoPossible, ErrUnable}

(* C11: the stored list changes only in the step in which assign()         *)
(* returns, so a call that throws leaves it as it was before the call and  *)
(* no partly built matching is ever stored; whenever assign() has thrown   *)
(* the list is empty, a generateEmailFiles() call made after it threw      *)
(* 'No assignments made yet. Run assign() first.' and a                    *)
(* getAssignmentsSummary() call made after it returned 'No assignments     *)
(* made yet.'.                                                             *)
C11_ThrowKeepsAssignments ==
    /\ [][assignments' # assignments => (pc' = "done" /\ outcome' = "returned")]_vars
    /\ [](pc = "done" /\ outcome \in AssignErrors =>
            /\ assignments = <<>>
            /\ "generateEmailFiles" \in called => thrown = ErrNoneYet
            /\ "getAssignmentsSummary" \in called => summary = NoneYetSummary)

C11_Witness ==
    /\ Threw(ErrUnable)
    /\ {"generateEmailFiles", "getAssignmentsSummary"} \subseteq called
    /\ thrown = ErrNoneYet
    /\ summary = NoneYetSummary
    /\ assignments = <<>>

---------------------------------------------------------------------------
(* The generate-and-test assign() of src/unnamed/part_001.  Its guard on   *)
(* the number of people, its shuffle and its constraint helpers are those  *)
(* modelled above; generateEmailFiles() is the same method.                *)

ErrCouldNot == "Could not find valid assignment with given constraints"

maxAttempts == 1000

(* shuffleArray([...this.people]) paired with the givers by position.      *)
(* Mutant: the shuffled copy supplies the givers, the list the receivers.  *)
generateAssignment_shuffledGivers(js) ==
    [i \in 1..Len(people) |-> Edge(people[receiverIndices(js)[i]], people[i])]

generateAssignment(js) ==
    [i \in 1..Len(people) |-> Edge(people[i], people[receiverIndices(js)[i]])]

validateAssignment(as) ==
    \A i \in 1..Len(as) :
        /\ ~(~allowSelfAssignment /\ as[i].giverId = as[i].receiverId)
        /\ ~isIllegalPairing(as[i].giverId, as[i].receiverId)
        /\ hasGroups => ~isWithinSameGroup(as[i].giverId, as[i].receiverId)

(* Mutant: the loop admits one round more.                                 *)
moreAttempts_inclusive == ~validAssignment /\ attempts <= maxAttempts

(* The condition of the while loop.                                        *)
moreAttempts == ~validAssignment /\ attempts < maxAttempts

StartAttempts ==
    /\ pc = "idle"
    /\ ~tooFew
    /\ pc' = "retry"
    /\ outcome' = "running"
    /\ attempts' = 0
    /\ validAssignment' = FALSE
    /\ called' = {}
    /\ UNCHANGED <<config, assignments, search, output, peers>>

(* One round of the loop: the candidate is stored, then validated.         *)
GenerateAndValidate ==
    /\ pc = "retry"
    /\ moreAttempts
    /\ \E js \in Draws(Len(people)) :
        /\ assignments' = generateAssignment(js)
        /\ validAssignment' = validateAssignment(assignments')
    /\ attempts' = attempts + 1
    /\ called' = called \cup {"generateAssignment", "validateAssignment"}
    /\ UNCHANGED <<config, pc, outcome, search, output, peers>>

AttemptsExhausted ==
    /\ pc = "retry"
    /\ ~moreAttempts
    /\ ~validAssignment
    /\ pc' = "done"
    /\ outcome' = ErrCouldNot
    /\ UNCHANGED <<config, aside, assignments, search, called>>

ValidFound ==
    /\ pc = "retry"
    /\ ~moreAttempts
    /\ validAssignment
    /\ pc' = "done"
    /\ outcome' = "returned"
    /\ UNCHANGED <<config, aside, assignments, search, called>>

RetryInputs ==
    {OnePerson, TwoPeople, ThreePeople, PairAndThird, AllForbidden}

InitRetry ==
    /\ \E c \in RetryInputs :
        /\ people = c.people
        /\ illegalPairings = c.illegalPairings
        /\ groups = c.groups
        /\ hasGroups = c.hasGroups
        /\ allowSelfAssignment \in SelfAssignmentFlags(c)
    /\ assignments = <<>>
    /\ pc = "idle"
    /\ outcome = "none"
    /\ stack = <<>>
    /\ cur = <<>>
    /\ ret = Null
    /\ called = {}
    /\ FreshDirectory
    /\ attempts = 0
    /\ validAssignment = FALSE
    /\ other = <<>>
    /\ earlier = <<>>

(* The steps of one assign() call.                                         *)
RetryStep ==
    \/ AssignTooFew
    \/ StartAttempts
    \/ GenerateAndValidate
    \/ AttemptsExhausted
    \/ ValidFound

NextRetry ==
    \/ AssignTooFew
    \/ StartAttempts
    \/ GenerateAndValidate
    \/ AttemptsExhausted
    \/ ValidFound
    \/ GenerateEmailFilesNoneYet
    \/ GenerateEmailFiles

SpecRetry == InitRetry /\ [][NextRetry]_vars

(* A call that has started runs on: assign() is synchronous code.          *)
SpecRetryFair == SpecRetry /\ WF_vars(RetryStep)

---------------------------------------------------------------------------
(* Properties of the generate-and-test assign().                           *)

(* C12: when assign() has thrown 'Could not find valid assignment with     *)
(* given constraints', the stored list is empty or passes validation, and  *)
(* the files a following generateEmailFiles() wrote are not those of a     *)
(* candidate that failed validation.                                       *)
C12_NoInvalidStored ==
    Threw(ErrCouldNot) =>
        /\ assignments = <<>> \/ validateAssignment(assignments)
        /\ thrown # "returned"

(* C13: assign() ends; it never runs more than 1000 rounds; a candidate    *)
(* that passes validation is returned in the next step, unchanged; what    *)
(* is returned passed validation, and each of its edges is allowed by the  *)
(* constraint data; 'Could not find ...' is thrown only after 1000         *)
(* rounds, and as long as the loop goes on the last candidate failed.      *)
C13_BoundedRetry ==
    /\ <>(pc = "done")
    /\ [](attempts <= maxAttempts)
    /\ [][pc = "retry" /\ validAssignment =>
            (Returned' /\ assignments' = assignments)]_vars
    /\ [](Returned =>
            /\ validAssignment
            /\ attempts >= 1
            /\ \A i \in 1..Len(assignments) :
                /\ allowSelfAssignment
                     \/ assignments[i].giverId # assignments[i].receiverId
                /\ <<assignments[i].giverId, assignments[i].receiverId>>
                     \notin illegalPairings
                /\ <<assignments[i].receiverId, assignments[i].giverId>>
                     \notin illegalPairings
                /\ hasGroups => \A group \in groups :
                     ~(assignments[i].giverId \in group
                       /\ assignments[i].receiverId \in group))
    /\ [](Threw(ErrCouldNot) => attempts = maxAttempts)
    /\ []((pc = "retry" \/ Threw(ErrCouldNot)) /\ attempts > 0 /\ ~validAssignment
            => ~validateAssignment(assignments))

C13_Witness ==
    /\ Returned
    /\ attempts = maxAttempts
    /\ Len(people) = 3
    /\ ~allowSelfAssignment

(* C14: in every round the shuffle can yield a candidate that fails        *)
(* validation, whether or not a valid assignment exists, so 1000 failures  *)
(* in a row are an execution of every input that forbids self-assignment:  *)
(* the throw does not show that the input has no valid assignment.         *)
C14_FailureIsNoProof ==
    (pc = "retry" /\ moreAttempts /\ ~allowSelfAssignment) =>
        \E js \in Draws(Len(people)) :
            ~validateAssignment(generateAssignment(js))

(* assign() threw on an input that has a valid assignment.                 *)
C14_Witness ==
    /\ Threw(ErrCouldNot)
    /\ ~allowSelfAssignment
    /\ \E js \in Draws(Len(people)) : validateAssignment(generateAssignment(js))

---------------------------------------------------------------------------
(* Self-assignment in src/secretSanta.ts.                                  *)

(* C15: isValidPairing(p, p) is false only when self-assignment is         *)
(* disallowed: once the search runs on a config that sets                  *)
(* allowSelfAssignment, a pair (p, p) that no forbidden pair and no group  *)
(* covers is accepted.                                                     *)
C15_SelfAssignmentConfigurable ==
    ("findMatching" \in called /\ allowSelfAssignment) =>
        \A i \in 1..Len(people) :
            (/\ <<people[i], people[i]>> \notin illegalPairings
             /\ hasGroups => \A group \in groups : people[i] \notin group)
                => isValidPairing(people[i], people[i])

---------------------------------------------------------------------------
(* Two executions on one input: the test builds a second object from the   *)
(* same people and calls assign() on it.                                   *)

FivePeople ==
    [people |-> <<"a", "b", "c", "d", "e">>,
     illegalPairings |-> {}, groups |-> {}, hasGroups |-> FALSE]

RunsInputs == {FivePeople, OnePerson, PairAndThird, AllForbidden}

InitRuns ==
    /\ \E c \in RunsInputs :
        /\ people = c.people
        /\ illegalPairings = c.illegalPairings
        /\ groups = c.groups
        /\ hasGroups = c.hasGroups
    /\ allowSelfAssignment = FALSE
    /\ assignments = <<>>
    /\ pc = "idle"
    /\ outcome = "none"
    /\ stack = <<>>
    /\ cur = <<>>
    /\ ret = Null
    /\ called = {}
    /\ FreshDirectory
    /\ attempts = 0
    /\ validAssignment = FALSE
    /\ other = <<>>
    /\ earlier = <<>>

(* The first execution has returned; a new object is built from the same   *)
(* config.  Of the returned list, the receiver of the first participant is *)
(* kept for the comparison.                                                *)
NewObject ==
    /\ Returned
    /\ earlier = <<>>
    /\ earlier' = <<assignments[1].receiverId>>
    /\ assignments' = <<>>
    /\ pc' = "idle"
    /\ outcome' = "none"
    /\ called' = {}
    /\ UNCHANGED <<config, search, output, retry, other>>

NextRuns ==
    \/ AssignTooFew
    \/ AssignInfeasible
    \/ AssignSearch
    \/ FindMatchingComplete
    \/ FindMatchingShuffle
    \/ LoopRecurse
    \/ LoopExhausted
    \/ ReturnResult
    \/ ReturnNull
    \/ AssignReturn
    \/ AssignUnable
    \/ NewObject

SpecRuns == InitRuns /\ [][NextRuns]_vars

(* The orders in which the elements of S can be listed.                    *)
Orders(S) ==
    {s \in [1..Cardinality(S) -> S] :
        \A i, j \in 1..Cardinality(S) : i # j => s[i] # s[j]}

(* C16: assign() is not deterministic.  On 5 people without constraints    *)
(* every call returns, and at every entry of findMatching with a giver     *)
(* left the loop can visit the admissible receivers in every order; the    *)
(* witness is a second execution that returned a list different from the   *)
(* one the first execution returned.                                       *)
C16_EveryOrderPossible ==
    /\ (pc = "done" /\ Len(people) = 5 /\ illegalPairings = {} /\ ~hasGroups)
          => Returned
    /\ (pc = "call" /\ Len(cur) # Len(people)) =>
          \A tried \in {Tried(cur)} :
              {Candidates(receiverIndices(js), tried) : js \in Draws(Len(people))}
                  = Orders(tried)

C16_Witness ==
    /\ Returned
    /\ Len(people) = 5
    /\ illegalPairings = {} /\ ~hasGroups
    /\ earlier # <<>>
    /\ assignments[1].receiverId # earlier[1]

---------------------------------------------------------------------------
(* Properties of generateEmailFiles().                                     *)

(* The last generateEmailFiles() call was made after the last assign().    *)
GeneratedSinceAssign == "generateEmailFiles" \in called

(* C17: as long as no assignment is stored, generateEmailFiles() throws    *)
(* 'No assignments made yet. Run assign() first.', and neither the output  *)
(* directory nor any file comes into being.                                *)
C17_NothingWritten ==
    assignments = <<>> =>
        /\ ~dirExists
        /\ files = NoFiles
        /\ thrown \in {"none", ErrNoneYet}
        /\ GeneratedSinceAssign => thrown = ErrNoneYet

C17_Witness ==
    /\ assignments = <<>>
    /\ pc = "idle"
    /\ Len(people) = 3
    /\ GeneratedSinceAssign
    /\ thrown = ErrNoneYet

(* C18: when generateEmailFiles() has returned for the list assign()       *)
(* stored (distinct ids), the directory holds exactly n + 1 files: the     *)
(* file '<id>_assignment.txt' of every participant and the master file;    *)
(* the file of a giver is the text built from the giver's name and the     *)
(* name of the receiver the stored list gives to that giver.               *)
C18_FilesWritten ==
    (thrown = "returned" /\ GeneratedSinceAssign /\ DistinctIds) =>
        /\ DOMAIN files = {people[i] \o "_assignment.txt" : i \in 1..Len(people)}
                            \cup {"MASTER_ASSIGNMENTS.txt"}
        /\ Cardinality(DOMAIN files) = Len(people) + 1
        /\ \A i \in 1..Len(assignments) :
              files[assignments[i].giverId \o "_assignment.txt"] =
                  generateEmailContent(assignments[i].giverId,
                                       assignments[i].receiverId)

C18_Witness ==
    /\ Returned
    /\ thrown = "returned"
    /\ GeneratedSinceAssign
    /\ Len(people) = 3
    /\ assignments[1] = Edge("a", "c")
    /\ files["a_assignment.txt"] = generateEmailContent("a", "c")

(* Some file of the stored list is missing in the directory or has other   *)
(* content.                                                                *)
Incomplete(dir) ==
    \E i \in 1..Len(Writes) :
        \/ Writes[i].name \notin DOMAIN dir
        \/ dir[Writes[i].name] # Writes[i].content

(* C19: a generateEmailFiles() call never changes the stored list, and a   *)
(* call on a stored list that ends without every file written hands the    *)
(* error of the file system to the caller; whenever that error was handed  *)
(* on, the stored list is the complete list assign() produced.             *)
C19_WriteErrorPropagates ==
    /\ [][(thrown' # thrown \/ files' # files \/ dirExists' # dirExists) =>
            /\ assignments' = assignments
            /\ (assignments # <<>> /\ Incomplete(files')) => thrown' = DiskFull]_vars
    /\ [](thrown = DiskFull =>
            /\ Len(assignments) = Len(people)
            /\ \A i \in 1..Len(people) :
                  /\ assignments[i].giverId = people[i]
                  /\ isValidPairing(people[i], assignments[i].receiverId))

C19_Witness ==
    /\ thrown = DiskFull
    /\ Returned
    /\ "a_assignment.txt" \in DOMAIN files
    /\ MasterName \notin DOMAIN files
    /\ Len(assignments) = Len(people)

---------------------------------------------------------------------------
(* Two objects.  The variables people .. called are the fields and the     *)
(* running call of the object that takes the next step; other[1] holds     *)
(* the same for the second object.  Every field is an instance field and   *)
(* every local of assign() and findMatching() lives in that call's frame,  *)
(* so a change of the running object exchanges all of them.                *)

This ==
    [people |-> people, illegalPairings |-> illegalPairings,
     groups |-> groups, hasGroups |-> hasGroups,
     allowSelfAssignment |-> allowSelfAssignment,
     assignments |-> assignments, pc |-> pc, outcome |-> outcome,
     stack |-> stack, cur |-> cur, ret |-> ret, called |-> called]

(* The object built by new SecretSanta(c).                                 *)
New(c) ==
    [people |-> c.people, illegalPairings |-> c.illegalPairings,
     groups |-> c.groups, hasGroups |-> c.hasGroups,
     allowSelfAssignment |-> FALSE,
     assignments |-> <<>>, pc |-> "idle", outcome |-> "none",
     stack |-> <<>>, cur |-> <<>>, ret |-> Null, called |-> {}]

(* Mutant: the assignments field is shared by the objects (a static).      *)
Switch_sharedAssignments ==
    /\ other # <<>>
    /\ other' = <<This>>
    /\ people' = other[1].people
    /\ illegalPairings' = other[1].illegalPairings
    /\ groups' = other[1].groups
    /\ hasGroups' = other[1].hasGroups
    /\ allowSelfAssignment' = other[1].allowSelfAssignment
    /\ pc' = other[1].pc
    /\ outcome' = other[1].outcome
    /\ stack' = other[1].stack
    /\ cur' = other[1].cur
    /\ ret' = other[1].ret
    /\ called' = other[1].called
    /\ UNCHANGED <<assignments, output, retry, earlier>>

(* The next step is taken by the second object.                            *)
Switch ==
    /\ other # <<>>
    /\ other' = <<This>>
    /\ people' = other[1].people
    /\ illegalPairings' = other[1].illegalPairings
    /\ groups' = other[1].groups
    /\ hasGroups' = other[1].hasGroups
    /\ allowSelfAssignment' = other[1].allowSelfAssignment
    /\ assignments' = other[1].assignments
    /\ pc' = other[1].pc
    /\ outcome' = other[1].outcome
    /\ stack' = other[1].stack
    /\ cur' = other[1].cur
    /\ ret' = other[1].ret
    /\ called' = other[1].called
    /\ UNCHANGED <<output, retry, earlier>>

TwoInputs ==
    {OnePerson, TwoPeople, ThreePeople, PairAndThird, AllForbidden,
     BidirectionalPairs}

InitTwo ==
    /\ \E c, d \in TwoInputs :
        /\ c # d
        /\ people = c.people
        /\ illegalPairings = c.illegalPairings
        /\ groups = c.groups
        /\ hasGroups = c.hasGroups
        /\ other = <<New(d)>>
    /\ allowSelfAssignment = FALSE
    /\ assignments = <<>>
    /\ pc = "idle"
    /\ outcome = "none"
    /\ stack = <<>>
    /\ cur = <<>>
    /\ ret = Null
    /\ called = {}
    /\ FreshDirectory
    /\ attempts = 0
    /\ validAssignment = FALSE
    /\ earlier = <<>>

NextTwo ==
    \/ AssignTooFew
    \/ AssignInfeasible
    \/ AssignSearch
    \/ FindMatchingComplete
    \/ FindMatchingShuffle
    \/ LoopRecurse
    \/ LoopExhausted
    \/ ReturnResult
    \/ ReturnNull
    \/ AssignReturn
    \/ AssignUnable
    \/ Switch

SpecTwo == InitTwo /\ [][NextTwo]_vars

(* The outcome of the running object is one that a run of assign() on its  *)
(* own input ends with: the error its input calls for, or a returned list  *)
(* that is a valid assignment of its own people.                           *)
OwnOutcome ==
    \/ /\ outcome = ErrTooFew
       /\ Len(people) < 2
       /\ assignments = <<>>
    \/ /\ outcome = ErrNoPossible
       /\ Len(people) >= 2
       /\ ~isAssignmentPossible
       /\ assignments = <<>>
    \/ /\ outcome = ErrUnable
       /\ Len(people) >= 2
       /\ isAssignmentPossible
       /\ ValidAssignments = {}
       /\ assignments = <<>>
    \/ /\ outcome = "returned"
       /\ Len(assignments) = Len(people)
       /\ \E m \in ValidAssignments :
             \A i \in 1..Len(people) :
                 assignments[i] = Edge(people[i], people[m[i]])

(* C20: two objects built from distinct inputs, the steps of their         *)
(* assign() calls interleaved in any way: a step of one object leaves      *)
(* every field of the other as it was, and the outcome of each object is   *)
(* one that it ends with when it runs alone on its own input.              *)
C20_Independent ==
    /\ [][other' # other => other' = <<This>>]_vars
    /\ [](pc = "done" => OwnOutcome)

C20_Witness ==
    /\ Returned
    /\ Len(people) = 3
    /\ other[1].pc = "done"
    /\ other[1].outcome = "returned"
    /\ Len(other[1].assignments) = 2

---------------------------------------------------------------------------
(* The stored assignment and the inputs over the life of one object.       *)

(* The text the two output methods print for the stored list, stated from  *)
(* the list: one line per edge, giver's name, arrow, receiver's name (the  *)
(* master file adds the giver's address).                                  *)
RECURSIVE Listing(_, _)
Listing(as, withEmail) ==
    IF as = <<>> THEN ""
    ELSE LET line == Name[Head(as).giverId]
                      \o (IF withEmail
                            THEN " (" \o Email[Head(as).giverId] \o ")"
                            ELSE "")
                      \o " -> " \o Name[Head(as).receiverId]
         IN  IF Tail(as) = <<>> THEN line
             ELSE line \o "\n" \o Listing(Tail(as), withEmail)

(* C21: once a list is stored, only the step in which a later assign()     *)
(* returns changes it; no step of generateEmailFiles() or                  *)
(* getAssignmentsSummary() changes it; the summary returned since the      *)
(* last assign() is the listing of the stored list, and the master file    *)
(* written since the last assign() is its listing with addresses.          *)
C21_AssignmentImmutable ==
    /\ [][(assignments # <<>> /\ assignments' # assignments) =>
            (pc = "ret" /\ Returned')]_vars
    /\ [][(thrown' # thrown \/ files' # files \/ dirExists' # dirExists
            \/ summary' # summary) => assignments' = assignments]_vars
    /\ []((assignments # <<>> /\ "getAssignmentsSummary" \in called) =>
            summary = Listing(assignments, FALSE))
    /\ []((assignments # <<>> /\ "generateEmailFiles" \in called
            /\ thrown = "returned") =>
            files["MASTER_ASSIGNMENTS.txt"] = Listing(assignments, TRUE))

C21_Witness ==
    /\ Returned
    /\ {"generateEmailFiles", "getAssignmentsSummary"} \subseteq called
    /\ thrown = "returned"
    /\ summary = "A -> C\nB -> A\nC -> B"
    /\ assignments = <<Edge("a", "c"), Edge("b", "a"), Edge("c", "b")>>

---------------------------------------------------------------------------
(* Five people in two overlapping groups.                                  *)

IsOverlappingFive ==
    /\ people = OverlappingFive.people
    /\ illegalPairings = {}
    /\ hasGroups
    /\ groups = OverlappingFive.groups

---------------------------------------------------------------------------
(* The chance of a result.  The shuffle makes every order of the           *)
(* admissible receivers equally likely, and the loop returns at the first  *)
(* receiver of that order whose recursive call returns a list.             *)

extend(currentAssignments, receiverIdx) ==
    Append(currentAssignments,
           Edge(people[Len(currentAssignments) + 1], people[receiverIdx]))

RECURSIVE Solvable(_)
(* findMatching(currentAssignments) returns a list (whatever the shuffles). *)
Solvable(currentAssignments) ==
    \/ Len(currentAssignments) = Len(people)
    \/ \E receiverIdx \in Tried(currentAssignments) :
           Solvable(extend(currentAssignments, receiverIdx))

(* The receivers at which the loop of findMatching(currentAssignments) can *)
(* return: each of them comes first among them in the same share of the    *)
(* shuffles.                                                               *)
Live(currentAssignments) ==
    {receiverIdx \in Tried(currentAssignments) :
        Solvable(extend(currentAssignments, receiverIdx))}

RECURSIVE Odds(_, _)
(* A run of assign() returns the list as with probability 1 / Odds(as, 0). *)
Odds(as, k) ==
    IF k = Len(as) THEN 1
    ELSE Cardinality(Live(SubSeq(as, 1, k))) * Odds(as, k + 1)

(* C23: every complete valid assignment of the input is returned with the  *)
(* same probability as the one that was returned.                          *)
C23_Uniform ==
    (Returned /\ DistinctIds) =>
        \A m \in ValidAssignments :
            Odds([i \in 1..Len(people) |-> Edge(people[i], people[m[i]])], 0)
                = Odds(assignments, 0)

---------------------------------------------------------------------------
(* The pre-check against Hall's condition.                                 *)

(* The entries of the list that some giver of S may give to.               *)
ReceiversOf(S) ==
    {r \in 1..Len(people) : \E g \in S : Allowed(people[g], people[r])}

(* Hall's condition on the sets of 1 to min(4, floor(n / 2)) givers.       *)
CappedHall ==
    \A S \in SUBSET (1..Len(people)) :
        (Cardinality(S) >= 1 /\ Cardinality(S) <= Min(4, Len(people) \div 2))
            => Cardinality(ReceiversOf(S)) >= Cardinality(S)

(* C24: once assign() has run the pre-check, isAssignmentPossible() is     *)
(* false exactly if some set of 1 to min(4, floor(n / 2)) givers has fewer *)
(* valid receivers than members, and assign() threw 'No possible           *)
(* assignment exists ...' exactly in that case.                            *)
C24_CappedHall ==
    "isAssignmentPossible" \in called =>
        /\ isAssignmentPossible <=> CappedHall
        /\ pc = "done" => (outcome = ErrNoPossible <=> ~CappedHall)

(* The pre-check passed although a larger set of givers fails Hall's       *)
(* condition.                                                              *)
C24_Witness ==
    /\ "isAssignmentPossible" \in called
    /\ isAssignmentPossible
    /\ Threw(ErrUnable)
    /\ \E S \in SUBSET (1..Len(people)) :
           /\ Cardinality(S) > Min(4, Len(people) \div 2)
           /\ Cardinality(ReceiversOf(S)) < Cardinality(S)

---------------------------------------------------------------------------
(* Termination of the search.                                              *)

(* The frame of the giver at depth k holds receivers not yet tried at this *)
(* branch point: no receiver twice, each of them untaken and valid there.  *)
FrameSound(k) ==
    /\ \A x, y \in 1..Len(stack[k]) : x # y => stack[k][x] # stack[k][y]
    /\ Range(stack[k]) \subseteq Tried(SubSeq(cur, 1, k - 1))

(* C25: assign() ends, in a return or in one of its three errors.  During  *)
(* the search every frame holds each untaken valid receiver at most once,  *)
(* and a receiver whose recursive call returned null is dropped from the   *)
(* frame before the loop goes on, so no receiver is tried twice at one     *)
(* branch point.                                                           *)
C25_SearchTerminates ==
    /\ <>(pc = "done")
    /\ [](pc = "done" => outcome \in {"returned"} \cup AssignErrors)
    /\ [](\A k \in 1..Len(stack) : FrameSound(k))
    /\ [][(pc = "ret" /\ pc' = "loop") =>
            /\ Len(stack') = Len(stack)
            /\ stack'[Len(stack)] = Tail(stack[Len(stack)])]_vars

(* The search went through every receiver of the first giver and gave up.  *)
C25_Witness ==
    /\ Threw(ErrUnable)
    /\ Len(people) = 3
    /\ Cardinality(Tried(<<>>)) = 2

---------------------------------------------------------------------------
(* The partial assignment held by the search.                              *)

(* C26: with pairwise distinct ids, at every point of the search the       *)
(* partial assignment has the first k participants as givers, in input     *)
(* order, pairwise distinct receivers, and only edges that isValidPairing  *)
(* accepts and the constraint data allow; it grows only by a receiver that *)
(* is neither taken nor rejected.                                          *)
C26_PartialSound ==
    /\ []((pc \in {"call", "loop", "ret"} /\ DistinctIds) =>
            /\ Len(cur) <= Len(people)
            /\ \A i \in 1..Len(cur) :
                  /\ cur[i].giverId = people[i]
                  /\ isValidPairing(cur[i].giverId, cur[i].receiverId)
                  /\ Allowed(cur[i].giverId, cur[i].receiverId)
            /\ \A i, j \in 1..Len(cur) :
                  i # j => cur[i].receiverId # cur[j].receiverId)
    /\ [][(DistinctIds /\ Len(cur') > Len(cur)) =>
            \E r \in 1..Len(people) :
                /\ cur' = Append(cur, Edge(people[Len(cur) + 1], people[r]))
                /\ \A i \in 1..Len(cur) : cur[i].receiverId # people[r]
                /\ isValidPairing(people[Len(cur) + 1], people[r])]_vars

C26_Witness ==
    /\ pc = "loop"
    /\ DistinctIds
    /\ Len(people) = 4
    /\ illegalPairings # {}
    /\ Len(cur) = 3
    /\ stack[Len(stack)] # <<>>

---------------------------------------------------------------------------
(* Which results the search can reach.                                     *)

(* The entries that the partial assignment uses as receivers.              *)
ReceiversUsed(currentAssignments) ==
    {r \in 1..Len(people) :
        \E i \in 1..Len(currentAssignments) :
            currentAssignments[i].receiverId = people[r]}

RECURSIVE Completes(_, _)
(* Givers k, k + 1, ... can be given pairwise distinct allowed receivers   *)
(* outside `used`: some complete valid assignment goes on this way. Stated *)
(* on the constraint data, not through the search.                         *)
Completes(used, k) ==
    \/ k > Len(people)
    \/ \E r \in (1..Len(people)) \ used :
          /\ Allowed(people[k], people[r])
          /\ Completes(used \cup {r}, k + 1)

(* The receivers some outcome of the shuffle makes the loop try first.     *)
CanComeFirst(tried) ==
    {Head(c) : c \in {Candidates(receiverIndices(js), tried) :
                         js \in Draws(Len(people))} \ {<<>>}}

(* C27: with pairwise distinct ids, whenever findMatching is entered with  *)
(* a partial assignment, every receiver with which some complete valid     *)
(* assignment goes on is tried first by the loop under some outcome of the *)
(* fresh shuffle; the recursive call is made with the receiver the loop    *)
(* tries first, and a complete list is returned as it is. Step by step,    *)
(* every complete valid assignment is the result of some execution.        *)
C27_EveryValidPossible ==
    /\ []((pc = "call" /\ DistinctIds /\ Len(cur) < Len(people)) =>
            \A first \in {CanComeFirst(Tried(cur))} :
                \A used \in {ReceiversUsed(cur)} :
                    \A r \in (1..Len(people)) \ used :
                        (/\ Allowed(people[Len(cur) + 1], people[r])
                         /\ Completes(used \cup {r}, Len(cur) + 2))
                            => r \in first)
    /\ [][(pc = "loop" /\ Len(cur') > Len(cur)) =>
            cur' = extend(cur, Head(stack[Len(stack)]))]_vars
    /\ [][(pc = "call" /\ Len(cur) = Len(people)) => ret' = Some(cur)]_vars
    /\ [][(pc = "ret" /\ pc' = "done" /\ ~ret.isNull) =>
            (Returned' /\ assignments' = ret.value)]_vars

C27_Witness ==
    /\ Returned
    /\ people = FourPeople.people
    /\ illegalPairings = {} /\ ~hasGroups
    /\ assignments = <<Edge("a", "d"), Edge("b", "a"),
                       Edge("c", "b"), Edge("d", "c")>>

---------------------------------------------------------------------------
(* The inputs of the object.                                               *)

(* C28: no step of assign(), generateEmailFiles() or getAssignmentsSummary() *)
(* changes the participant list or the constraint data the object was      *)
(* built with, and the step in which the loop guards call isValidPairing   *)
(* changes nothing but the loop's own frame.                               *)
C28_InputsUntouched ==
    /\ [][/\ people' = people
          /\ illegalPairings' = illegalPairings
          /\ groups' = groups
          /\ hasGroups' = hasGroups]_vars
    /\ [][(pc = "call" /\ pc' = "loop") =>
            UNCHANGED <<config, assignments, outcome, cur, ret, aside>>]_vars

C28_Witness ==
    /\ people = PairAndThird.people
    /\ illegalPairings = PairAndThird.illegalPairings
    /\ pc = "done"
    /\ outcome = ErrUnable
    /\ "isAssignmentPossible" \in called
    /\ "generateEmailFiles" \in called
    /\ "getAssignmentsSummary" \in called

---------------------------------------------------------------------------
(* One call of assign(), of either implementation.                         *)

NextEither ==
    \/ Next
    \/ RetryStep

SpecEither == InitRetry /\ [][NextEither]_vars

(* C29: whenever assign() returns, in the backtracking implementation as   *)
(* in the generate-and-test one, the stored list has one edge per entry of *)
(* the participant list and its i-th edge has the i-th participant's id as *)
(* giverId.                                                                *)
C29_GiversInInputOrder ==
    Returned =>
        /\ Len(assignments) = Len(people)
        /\ \A i \in 1..Len(people) : assignments[i].giverId = people[i]

C29_Witness ==
    /\ Returned
    /\ attempts >= 2
    /\ Len(people) = 3
    /\ assignments[1].receiverId # people[2]

---------------------------------------------------------------------------
(* Two entries with the same id.                                           *)

(* The entry the loop of the k-th open findMatching call is recursing on.  *)
chosen(k) == Head(stack[k])

(* C30: on the list (alice, bob, charlie, alice) assign() returns, with 4  *)
(* edges, and when the search completes an assignment no entry of the list *)
(* has been chosen as receiver for two givers.                             *)
C30_DuplicatesHandled ==
    people = DuplicatePeople.people =>
        /\ pc = "done" => (Returned /\ Len(assignments) = 4)
        /\ (pc = "call" /\ Len(cur) = Len(people)) =>
              \A i, j \in 1..Len(stack) : i # j => chosen(i) # chosen(j)

====
